---- MODULE Spec2Model ----
(***************************************************************************)
(* Loan management program (src/project.py): a sequential terminal menu    *)
(* over a PostgreSQL store reached through psycopg2.                       *)
(*                                                                         *)
(* Money is counted in mills (1/1000 of a dollar), so that an amount typed *)
(* with more than two decimals and its NUMERIC(10,2) stored value are both *)
(* integers here.  Interest rates are counted in twelfths of a percent     *)
(* before they are stored and in hundredths of a percent once stored.      *)
(*                                                                         *)
(* A line typed at a prompt is <<>> when int()/float() rejects it and      *)
(* <<n>> when it parses to the number n.                                   *)
(* The lines "nan" and "inf", which float() accepts, are not among the     *)
(* typed amounts.                                                          *)
(***************************************************************************)
EXTENDS Integers, Sequences, FiniteSets, TLC

VARIABLES
    users,      \* table users: row i has id i (SERIAL)
    loans,      \* table loans: row i has id i (SERIAL)
    payments,   \* table payments
    conn,       \* db.conn: "closed", "ok", or "aborted" (a statement failed, no rollback)
    pc,         \* where the process is: "exited", "main" (main menu), "user" (dashboard)
    user,       \* the dict login() returned to main(), NoUser outside a session
    out,        \* the messages the last operation printed, in order
    last        \* observation only: the last operation, what it read of the lines
                \* typed into it, and the status the loan it names had before it

vars == <<users, loans, payments, conn, pc, user, out, last>>

(***************************************************************************)
(* Bounds of the model.                                                    *)
(***************************************************************************)
MaxLoans == 2
MaxPayments == 2

\* usernames typed at the prompts; users.username is UNIQUE, so the table holds
\* at most one row for each
Usernames == {"admin", "alice"}
Passwords == {"admin123", "pw"}
\* amounts typed at "Loan amount ($)": -1.000, 0, 0.004, 0.1 (all far below
\* the 10^8 dollars at which a DECIMAL(10,2) column overflows). 0.1 is not a
\* binary fraction: its double lies above it.
LoanAmountInputs == {<<>>, <<-1000>>, <<0>>, <<4>>, <<100>>}
\* amounts typed at "Payment amount ($)": -1.000, 0, 0.05, 0.1, 3.0
PaymentAmountInputs == {<<>>, <<-1000>>, <<0>>, <<50>>, <<100>>, <<3000>>}
TermInputs == {<<>>, <<0>>, <<12>>}
LoanIdInputs == {<<>>} \cup {<<i>> : i \in 1..(MaxLoans + 1)}
ActionInputs == {"a", "r", "A", "x"}
ChoiceInputs == {"5", "6", "9"}
\* index of the first db.execute call of an operation that raises psycopg2.Error
\* (0: none does), for an operation that makes at most n calls; on a connection
\* that is not "ok" every call raises, whatever the index
FailPoints(n) == IF conn = "ok" THEN 0..n ELSE {0}

(***************************************************************************)
(* Values.                                                                 *)
(***************************************************************************)
NoUser == [id |-> 0, username |-> "", is_admin |-> FALSE]

\* bcrypt.hashpw(password, salt): one-way, modelled as the pair it is a function of
bcrypt_hashpw(password, salt) == <<salt, password>>

\* bcrypt.gensalt(): a single salt is drawn
bcrypt_gensalt == "salt"

\* variant of bcrypt_checkpw that accepts every password
bcrypt_checkpw_any(password, hashed) == TRUE

\* bcrypt.checkpw(password, hashed): re-hash with the salt of hashed and compare
bcrypt_checkpw(password, hashed) == bcrypt_hashpw(password, hashed[1]) = hashed

\* a value assigned to a DECIMAL(10,2) column, in mills: rounded to the cent,
\* half away from zero
ToNumeric_10_2(x) ==
    IF x >= 0 THEN ((x + 5) \div 10) * 10 ELSE -(((5 - x) \div 10) * 10)

\* variant of interest_rate without the cap
interest_rate_uncapped(term) == 60 + term

\* min(5.0 + (term / 12), 15.0), in twelfths of a percent
interest_rate(term) == IF 60 + term < 180 THEN 60 + term ELSE 180

\* a rate in twelfths of a percent assigned to a DECIMAL(5,2) column, in
\* hundredths of a percent (x/12 is never half-way between two hundredths)
ToNumeric_5_2(x) == (50 * x + 3) \div 6

\* float(text) is the double nearest to the decimal typed, which it equals
\* only when the decimal is a binary fraction. The operators below give the
\* side on which the double of x mills lies: 1 above x, -1 below, 0 equal.
RECURSIVE bit_length(_)
bit_length(x) == IF x = 0 THEN 0 ELSE 1 + bit_length(x \div 2)

\* binary expansion of r/1000 (0 <= r < 1000) while k of the 53 significant
\* bits of a double are still to come; started: a 1 bit has been seen;
\* prev: the bit before. What is left after the last bit is rounded to
\* nearest, ties to even.
RECURSIVE round_direction(_, _, _, _)
round_direction(r, k, started, prev) ==
    IF r = 0 THEN 0
    ELSE IF k = 0
    THEN IF 2 * r > 1000 THEN 1
         ELSE IF 2 * r < 1000 THEN -1
         ELSE IF prev = 1 THEN 1 ELSE -1
    ELSE LET b == IF 2 * r >= 1000 THEN 1 ELSE 0
         IN  round_direction(2 * r - 1000 * b,
                             IF started \/ b = 1 THEN k - 1 ELSE k,
                             started \/ b = 1, b)

float_error(x) ==
    IF x < 0
    THEN -round_direction((-x) % 1000, 53 - bit_length((-x) \div 1000),
                          (-x) \div 1000 > 0, ((-x) \div 1000) % 2)
    ELSE round_direction(x % 1000, 53 - bit_length(x \div 1000),
                         x \div 1000 > 0, (x \div 1000) % 2)

\* int(text) / float(text) raise ValueError
ValueError(text) == text = <<>>

\* selected_loan[2] - amount: the driver returns a DECIMAL column as
\* decimal.Decimal, amount is a float, and Decimal - float raises TypeError.
\* <<>> stands for the exception, <<v>> for a difference v.
decimal_sub_float(balance, amount) == <<>>

\* whether statement number i of an operation raises psycopg2.Error, given the
\* first failing one f: once a statement has failed the transaction stays
\* aborted (execute never rolls back) and every later statement fails too
Fails(f, i) == conn # "ok" \/ (f # 0 /\ i >= f)

\* what Database.execute prints for statement i
DbError(f, i) == IF Fails(f, i) THEN <<"Database error">> ELSE <<>>

\* db.conn after an operation that ran statements 1..n
ConnAfter(f, n) == IF \E i \in 1..n : Fails(f, i) THEN "aborted" ELSE conn

Op(name, args) == [op |-> name, args |-> args, old |-> ""]

(***************************************************************************)
(* Initial state: the process has not been started, the database is empty. *)
(***************************************************************************)
Init ==
    /\ users = <<>>
    /\ loans = <<>>
    /\ payments = <<>>
    /\ conn = "closed"
    /\ pc = "exited"
    /\ user = NoUser
    /\ out = <<>>
    /\ last = Op("", <<>>)

\* "Database error" was printed: some db.execute call raised psycopg2.Error
DbErrorIn(msgs) == \E k \in DOMAIN msgs : msgs[k] = "Database error"

\* variant of UserIds that never finds the username
UserIds_none(username) == {}

\* SELECT 1 FROM users WHERE username = %s
UserIds(username) == {i \in DOMAIN users : users[i].username = username}

(***************************************************************************)
(* main() up to the first menu: Database() connects and runs create_tables *)
(* in one transaction; a psycopg2.Error there ends the process.            *)
(***************************************************************************)
\* variant of create_tables that inserts the admin account on every run
create_tables_unconditional ==
    Append(users, [username |-> "admin",
                   password_hash |-> bcrypt_hashpw("admin123", bcrypt_gensalt),
                   is_admin |-> TRUE])

create_tables ==
    IF UserIds("admin") = {}
    THEN Append(users, [username |-> "admin",
                        password_hash |-> bcrypt_hashpw("admin123", bcrypt_gensalt),
                        is_admin |-> TRUE])
    ELSE users

Start(ok) ==
    /\ pc = "exited"
    /\ last' = Op("start", <<>>)
    /\ user' = NoUser
    /\ UNCHANGED <<loans, payments>>
    /\ IF ok
       THEN /\ users' = create_tables
            /\ conn' = "ok"
            /\ pc' = "main"
            /\ out' = <<"Database connection established">>
       ELSE /\ out' = <<"Database connection failed">>
            /\ UNCHANGED <<users, conn, pc>>

\* an exception that no handler catches: main()'s finally closes the connection
Crash(msgs) ==
    /\ pc' = "exited"
    /\ conn' = "closed"
    /\ user' = NoUser
    /\ out' = msgs

(***************************************************************************)
(* Main menu.                                                              *)
(***************************************************************************)
\* variant of username_exists that lets every username through
username_exists_never(username, f) == FALSE

\* if db.execute("SELECT 1 FROM users WHERE username = %s", ..., fetch=True):
\* a failed SELECT returns None, which is false
username_exists(username, f) == ~Fails(f, 1) /\ UserIds(username) # {}

register(username, password, confirm, f) ==
    /\ pc = "main"
    /\ UNCHANGED <<loans, payments, pc, user>>
    /\ IF username_exists(username, f)
       THEN /\ out' = <<"Username already exists!">>
            /\ last' = Op("register", <<username>>)
            /\ UNCHANGED <<users, conn>>
       ELSE IF password # confirm
       THEN /\ out' = DbError(f, 1) \o <<"Passwords don't match!">>
            /\ last' = Op("register", <<username, password, confirm>>)
            /\ conn' = ConnAfter(f, 1)
            /\ UNCHANGED users
       ELSE /\ last' = Op("register", <<username, password, confirm>>)
            /\ users' = IF Fails(f, 2) THEN users
                        ELSE Append(users,
                                 [username |-> username,
                                  password_hash |-> bcrypt_hashpw(password, bcrypt_gensalt),
                                  is_admin |-> FALSE])
            /\ out' = DbError(f, 1) \o DbError(f, 2) \o <<"Registration successful!">>
            /\ conn' = ConnAfter(f, 2)

login(username, password, f) ==
    /\ pc = "main"
    /\ last' = Op("login", <<username, password>>)
    /\ conn' = ConnAfter(f, 1)
    /\ UNCHANGED <<users, loans, payments>>
    /\ IF \/ Fails(f, 1)
          \/ UserIds(username) = {}
          \/ ~bcrypt_checkpw(password,
                             users[CHOOSE i \in UserIds(username) : TRUE].password_hash)
       THEN /\ out' = DbError(f, 1) \o <<"Invalid credentials!">>
            /\ UNCHANGED <<pc, user>>
       ELSE LET id == CHOOSE i \in UserIds(username) : TRUE
            IN  /\ out' = <<"Welcome">>
                /\ user' = [id |-> id, username |-> username,
                            is_admin |-> users[id].is_admin]
                /\ pc' = "user"

Exit ==
    /\ pc = "main"
    /\ last' = Op("exit", <<>>)
    /\ pc' = "exited"
    /\ conn' = "closed"
    /\ out' = <<"Goodbye!">>
    /\ UNCHANGED <<users, loans, payments, user>>

(***************************************************************************)
(* User dashboard (show_user_menu).                                        *)
(***************************************************************************)
Logout ==
    /\ pc = "user"
    /\ last' = Op("logout", <<>>)
    /\ pc' = "main"
    /\ user' = NoUser
    /\ out' = <<>>
    /\ UNCHANGED <<users, loans, payments, conn>>

\* variant of user_is_admin that lets every session into the admin branches
user_is_admin_always == TRUE

\* user["is_admin"] in: elif choice == "5" and user["is_admin"]
user_is_admin == user.is_admin

\* a choice no branch of the menu takes: "5" and "6" are taken only for an admin
InvalidChoice(choice) ==
    /\ \/ pc = "main"
       \/ pc = "user" /\ (choice \in {"5", "6"} => ~user_is_admin)
    /\ last' = Op("invalid_choice", <<>>)
    /\ out' = <<"Invalid choice!">>
    /\ UNCHANGED <<users, loans, payments, conn, pc, user>>

\* variant of not_positive that forgets the term
not_positive_amount_only(amount, term) == amount <= 0

\* variant of not_positive that forgets the amount
not_positive_term_only(amount, term) == term <= 0

\* if amount <= 0 or term <= 0
not_positive(amount, term) == amount <= 0 \/ term <= 0

apply_for_loan(amount, term, f) ==
    /\ pc = "user"
    /\ UNCHANGED <<users, payments, pc, user>>
    /\ IF ValueError(amount) \/ ValueError(term)
       THEN /\ out' = <<"Invalid input! Please enter numbers.">>
            /\ last' = Op("apply_for_loan", <<>>)
            /\ UNCHANGED <<loans, conn>>
       ELSE IF not_positive(amount[1], term[1])
       THEN /\ out' = <<"Amount and term must be positive!">>
            /\ last' = Op("apply_for_loan", <<amount, term>>)
            /\ UNCHANGED <<loans, conn>>
       ELSE LET failed == Fails(f, 1)
            IN  /\ failed \/ Len(loans) < MaxLoans
                /\ last' = Op("apply_for_loan", <<amount, term>>)
                /\ loans' = IF failed THEN loans
                            ELSE Append(loans,
                                     [user_id |-> user.id,
                                      amount |-> ToNumeric_10_2(amount[1]),
                                      term |-> term[1],
                                      interest_rate |->
                                          ToNumeric_5_2(interest_rate(term[1])),
                                      status |-> "pending",
                                      balance |-> ToNumeric_10_2(amount[1])])
                /\ out' = (IF failed THEN <<"Database error">> ELSE <<>>)
                          \o <<"Loan application submitted successfully!">>
                /\ conn' = IF failed THEN "aborted" ELSE conn

view_loans(f) ==
    /\ pc = "user"
    /\ last' = Op("view_loans", <<>>)
    /\ conn' = ConnAfter(f, 1)
    /\ out' = IF Fails(f, 1) \/ ~\E i \in DOMAIN loans : loans[i].user_id = user.id
              THEN DbError(f, 1) \o <<"You have no loans.">>
              ELSE <<"loans listed">>
    /\ UNCHANGED <<users, loans, payments, pc, user>>

\* variant of approved_loans without the status filter
approved_loans_any_status(user_id) ==
    {i \in DOMAIN loans : loans[i].user_id = user_id}

\* SELECT id, amount, balance FROM loans WHERE user_id = %s AND status = 'approved'
approved_loans(user_id) ==
    {i \in DOMAIN loans : loans[i].user_id = user_id /\ loans[i].status = "approved"}

\* if amount <= 0 (make_payment)
amount_not_positive(amount) == amount <= 0

\* variant of exceeds_balance without the comparison
exceeds_balance_unchecked(amount, balance) == FALSE

\* if amount > selected_loan[2]: the double of the typed amount against the
\* Decimal balance, compared exactly; the two differ by less than a mill, so
\* the double decides only when the decimals are equal
exceeds_balance(amount, balance) ==
    amount > balance \/ (amount = balance /\ float_error(amount) > 0)

make_payment(loan_id, amount, f) ==
    /\ pc = "user"
    /\ users' = users
    /\ IF Fails(f, 1) \/ approved_loans(user.id) = {}
       THEN /\ out' = DbError(f, 1) \o <<"You have no approved loans.">>
            /\ conn' = ConnAfter(f, 1)
            /\ last' = Op("make_payment", <<>>)
            /\ UNCHANGED <<loans, payments, pc, user>>
       ELSE IF ValueError(loan_id) \/ ValueError(amount)
       THEN /\ out' = <<"Invalid input! Please enter numbers.">>
            /\ last' = Op("make_payment", <<>>)
            /\ UNCHANGED <<loans, payments, conn, pc, user>>
       ELSE
       /\ last' = [op |-> "make_payment",
                   args |-> IF loan_id[1] \notin approved_loans(user.id)
                            THEN <<loan_id>> ELSE <<loan_id, amount>>,
                   old |-> IF loan_id[1] \in DOMAIN loans
                           THEN loans[loan_id[1]].status ELSE ""]
       /\ IF loan_id[1] \notin approved_loans(user.id)
          THEN /\ out' = <<"Invalid loan ID!">>
               /\ UNCHANGED <<loans, payments, conn, pc, user>>
          ELSE IF amount_not_positive(amount[1])
          THEN /\ out' = <<"Amount must be positive!">>
               /\ UNCHANGED <<loans, payments, conn, pc, user>>
          ELSE IF exceeds_balance(amount[1], loans[loan_id[1]].balance)
          THEN /\ out' = <<"Payment exceeds loan balance!">>
               /\ UNCHANGED <<loans, payments, conn, pc, user>>
          ELSE LET new_balance == decimal_sub_float(loans[loan_id[1]].balance, amount[1])
               IN  IF new_balance = <<>>
                   THEN /\ Crash(<<"TypeError">>)
                        /\ UNCHANGED <<loans, payments>>
                   ELSE \* statements 2 (UPDATE balance), 3 (INSERT payment) and, when
                        \* the new balance is 0, 4 (UPDATE status), each committed
                        \* on its own; g is the first of them that fails
                        \E g \in {0, 2, 3, 4} :
                        LET l1 == IF Fails(g, 2) THEN loans
                                  ELSE [loans EXCEPT ![loan_id[1]].balance =
                                            ToNumeric_10_2(new_balance[1])]
                            paid == new_balance[1] = 0
                        IN  /\ Fails(g, 3) \/ Len(payments) < MaxPayments
                            /\ payments' =
                                   IF Fails(g, 3) THEN payments
                                   ELSE Append(payments,
                                            [loan_id |-> loan_id[1],
                                             amount |-> ToNumeric_10_2(amount[1])])
                            /\ loans' = IF paid /\ ~Fails(g, 4)
                                        THEN [l1 EXCEPT ![loan_id[1]].status = "paid"]
                                        ELSE l1
                            /\ out' = DbError(g, 2) \o DbError(g, 3)
                                      \o (IF paid THEN DbError(g, 4) ELSE <<>>)
                                      \o <<"Payment successful!">>
                            /\ conn' = ConnAfter(g, IF paid THEN 4 ELSE 3)
                            /\ UNCHANGED <<pc, user>>

\* SELECT ... FROM loans l JOIN users u ... WHERE l.status = 'pending'
pending_loans ==
    {i \in DOMAIN loans : loans[i].status = "pending" /\ loans[i].user_id \in DOMAIN users}

\* variant of set_status in which rejecting deletes the loan row
set_status_delete_rejected(loan_id, status) ==
    IF loan_id \notin DOMAIN loans THEN loans
    ELSE IF status = "rejected"
    THEN [i \in 1..(Len(loans) - 1) |-> IF i < loan_id THEN loans[i] ELSE loans[i + 1]]
    ELSE [loans EXCEPT ![loan_id].status = status]

\* variant of set_status that decides pending loans only
set_status_if_pending(loan_id, status) ==
    IF loan_id \in DOMAIN loans /\ loans[loan_id].status = "pending"
    THEN [loans EXCEPT ![loan_id].status = status] ELSE loans

\* UPDATE loans SET status = %s WHERE id = %s (no row matches an unknown id)
set_status(loan_id, status) ==
    IF loan_id \in DOMAIN loans THEN [loans EXCEPT ![loan_id].status = status] ELSE loans

\* str.lower() on the lines typed at "Approve (A) or Reject (R)?"
lower(text) == IF text = "A" THEN "a" ELSE IF text = "R" THEN "r" ELSE text

review_pending_loans(loan_id, action, f) ==
    /\ pc = "user"
    /\ user_is_admin
    /\ UNCHANGED <<users, payments, pc, user>>
    /\ IF Fails(f, 1) \/ pending_loans = {}
       THEN /\ out' = DbError(f, 1) \o <<"No pending loans found.">>
            /\ conn' = ConnAfter(f, 1)
            /\ last' = Op("review_pending_loans", <<>>)
            /\ UNCHANGED loans
       ELSE IF ValueError(loan_id)
       THEN /\ out' = <<"Invalid input!">>
            /\ last' = Op("review_pending_loans", <<>>)
            /\ UNCHANGED <<loans, conn>>
       ELSE
       /\ last' = [op |-> "review_pending_loans", args |-> <<loan_id, lower(action)>>,
                   old |-> IF loan_id[1] \in DOMAIN loans
                           THEN loans[loan_id[1]].status ELSE ""]
       /\ IF lower(action) = "a"
          THEN /\ loans' = IF Fails(f, 2) THEN loans ELSE set_status(loan_id[1], "approved")
               /\ out' = DbError(f, 2) \o <<"Loan approved!">>
               /\ conn' = ConnAfter(f, 2)
          ELSE IF lower(action) = "r"
          THEN /\ loans' = IF Fails(f, 2) THEN loans ELSE set_status(loan_id[1], "rejected")
               /\ out' = DbError(f, 2) \o <<"Loan rejected.">>
               /\ conn' = ConnAfter(f, 2)
          ELSE /\ out' = <<"Invalid action!">>
               /\ UNCHANGED <<loans, conn>>

\* a failed SELECT returns None and "for user in users" raises TypeError
manage_users(f) ==
    /\ pc = "user"
    /\ user_is_admin
    /\ last' = Op("manage_users", <<>>)
    /\ UNCHANGED <<users, loans, payments>>
    /\ IF Fails(f, 1)
       THEN Crash(<<"Database error", "TypeError">>)
       ELSE /\ out' = <<"Admin functions coming soon!">>
            /\ UNCHANGED <<conn, pc, user>>

\* The lines typed into an operation: a prompt the operation does not get to
\* (it returned or raised before) is given no line, <<>> or "".
RegisterPasswordLines(username, f) ==
    IF username_exists(username, f) THEN {""} ELSE Passwords

ApplyTermLines(amount) == IF ValueError(amount) THEN {<<>>} ELSE TermInputs

PaymentLoanIdLines(f) ==
    IF Fails(f, 1) \/ approved_loans(user.id) = {} THEN {<<>>} ELSE LoanIdInputs

PaymentAmountLines(loan_id) ==
    IF ValueError(loan_id) THEN {<<>>} ELSE PaymentAmountInputs

ReviewLoanIdLines(f) ==
    IF Fails(f, 1) \/ pending_loans = {} THEN {<<>>} ELSE LoanIdInputs

ReviewActionLines(loan_id) == IF ValueError(loan_id) THEN {""} ELSE ActionInputs

Next ==
    \/ \E ok \in BOOLEAN : Start(ok)
    \/ \E u \in Usernames, f \in FailPoints(2) :
           \E p \in RegisterPasswordLines(u, f), c \in RegisterPasswordLines(u, f) :
               register(u, p, c, f)
    \/ \E u \in Usernames, p \in Passwords, f \in FailPoints(1) : login(u, p, f)
    \/ Exit
    \/ Logout
    \/ \E c \in ChoiceInputs : InvalidChoice(c)
    \/ \E a \in LoanAmountInputs, f \in FailPoints(1) :
           \E t \in ApplyTermLines(a) : apply_for_loan(a, t, f)
    \/ \E f \in FailPoints(1) : view_loans(f)
    \/ \E f \in FailPoints(1) :
           \E l \in PaymentLoanIdLines(f) :
               \E a \in PaymentAmountLines(l) : make_payment(l, a, f)
    \/ \E f \in FailPoints(2) :
           \E l \in ReviewLoanIdLines(f) :
               \E a \in ReviewActionLines(l) : review_pending_loans(l, a, f)
    \/ \E f \in FailPoints(1) : manage_users(f)

Spec == Init /\ [][Next]_vars

(***************************************************************************)
(* The same program on the runs that matter to the interest rate: accounts *)
(* register, log in and apply for loans, with terms on both sides of the   *)
(* cap (1: 5.08, 2: 5.17, 119: 14.92, 120: 15.00, 121: capped) and two     *)
(* amounts (0.004 and 2.000).                                              *)
(***************************************************************************)
RateTermInputs == {<<1>>, <<2>>, <<119>>, <<120>>, <<121>>}
RateAmountInputs == {<<4>>, <<2000>>}

RateNext ==
    \/ Start(TRUE)
    \/ \E u \in Usernames : register(u, "pw", "pw", 0)
    \/ \E u \in Usernames, p \in Passwords : login(u, p, 0)
    \/ Exit
    \/ Logout
    \/ \E a \in RateAmountInputs, t \in RateTermInputs, f \in FailPoints(1) :
           apply_for_loan(a, t, f)

SpecRate == Init /\ [][RateNext]_vars

(***************************************************************************)
(* Properties.                                                             *)
(***************************************************************************)
\* C1: in every reachable state every loan has balance 0 exactly when its
\* status is paid.
C1_BalanceZeroIffPaid ==
    \A i \in DOMAIN loans : (loans[i].balance = 0) <=> (loans[i].status = "paid")

\* C2: every change of a loan's status is pending -> approved,
\* pending -> rejected or approved -> paid.
C2_OnlyThreeTransitions ==
    [][\A i \in DOMAIN loans :
           loans'[i].status # loans[i].status =>
               <<loans[i].status, loans'[i].status>> \in
                   {<<"pending", "approved">>, <<"pending", "rejected">>,
                    <<"approved", "paid">>}]_vars

\* loan i is owned by the logged-in caller and approved
Eligible(i) ==
    pc = "user" /\ loans[i].user_id = user.id /\ loans[i].status = "approved"

\* the step is make_payment with loan id l and amount a typed at its prompts
\* (the prompts are reached when the caller has approved loans and the SELECT
\* did not fail; the amount is not looked at when the loan id is refused)
PaymentStep(l, a) ==
    last'.op = "make_payment" /\ (last'.args = <<l>> \/ last'.args = <<l, a>>)

\* C5: every loan has 0 <= balance <= amount in every reachable state.
C5_BalanceWithinAmount ==
    \A i \in DOMAIN loans : 0 <= loans[i].balance /\ loans[i].balance <= loans[i].amount

\* C5 witness: a loan applied for with a positive amount, approved, and on
\* which its owner has attempted a payment that passed validation.
C5_Witness ==
    /\ last.op = "make_payment"
    /\ out = <<"TypeError">>
    /\ last.old = "approved"
    /\ loans[last.args[1][1]].amount = 100
    /\ loans[last.args[1][1]].balance = 100

\* C6: a loan's balance changes and a payment record is added only for a
\* loan that the logged-in caller owns and that is approved; an attempt on
\* any other loan is refused as an invalid loan id and changes no loan and
\* no payment record.
C6_OnlyOwnApprovedLoans ==
    [][/\ \A i \in DOMAIN loans : loans'[i].balance # loans[i].balance => Eligible(i)
       /\ payments' # payments =>
              /\ Len(payments') = Len(payments) + 1
              /\ SubSeq(payments', 1, Len(payments)) = payments
              /\ payments'[Len(payments')].loan_id \in DOMAIN loans
              /\ Eligible(payments'[Len(payments')].loan_id)
       /\ \A l \in DOMAIN loans, a \in PaymentAmountInputs :
              (PaymentStep(<<l>>, a) /\ a # <<>> /\ ~Eligible(l)) =>
                  /\ out' = <<"Invalid loan ID!">>
                  /\ loans' = loans
                  /\ payments' = payments]_vars

\* C6 witness: the caller owns an approved loan and has just been refused a
\* payment on an approved loan of another account.
C6_Witness ==
    /\ last.op = "make_payment"
    /\ out = <<"Invalid loan ID!">>
    /\ last.args[1][1] \in DOMAIN loans
    /\ loans[last.args[1][1]].status = "approved"
    /\ loans[last.args[1][1]].user_id # user.id
    /\ \E i \in DOMAIN loans : Eligible(i)

\* C7: a payment of a with 0 < a < balance on an approved loan of the caller
\* sets the balance to balance - a, leaves the status, appends exactly one
\* payment record (loan id, a) and changes nothing else.
C7_PartialPayment ==
    [][\A l \in DOMAIN loans, a \in PaymentAmountInputs :
           (/\ PaymentStep(<<l>>, a)
            /\ Eligible(l)
            /\ a # <<>>
            /\ ~DbErrorIn(out')
            /\ 0 < a[1]
            /\ a[1] < loans[l].balance) =>
               /\ loans' = [loans EXCEPT ![l].balance = @ - a[1]]
               /\ payments' = Append(payments, [loan_id |-> l, amount |-> a[1]])
               /\ users' = users]_vars

\* C8: a payment of the full balance of an approved loan of the caller sets
\* the balance to 0 and the status to paid; a later attempt on the paid loan
\* is refused as not found and changes nothing.
C8_FullPayment ==
    [][\A l \in DOMAIN loans, a \in PaymentAmountInputs :
           /\ (/\ PaymentStep(<<l>>, a)
               /\ Eligible(l)
               /\ a # <<>>
               /\ ~DbErrorIn(out')
               /\ 0 < a[1]
               /\ a[1] = loans[l].balance) =>
                  /\ loans' = [loans EXCEPT ![l].balance = 0, ![l].status = "paid"]
                  /\ Len(payments') = Len(payments) + 1
           /\ (/\ PaymentStep(<<l>>, a)
               /\ a # <<>>
               /\ loans[l].status = "paid") =>
                  /\ out' = <<"Invalid loan ID!">>
                  /\ loans' = loans
                  /\ payments' = payments]_vars

\* validation rejects a payment of amount a on loan id l
Rejected(l, a) ==
    \/ ~(l \in DOMAIN loans /\ Eligible(l))
    \/ a <= 0
    \/ a > loans[l].balance

\* C9: a payment attempt that validation rejects (the caller has no approved
\* loan, the loan id is not among the caller's approved loans, amount <= 0,
\* amount > balance) is reported as that rejection and leaves users, loans,
\* payments and the session as they were, so that the same attempt is
\* rejected again in the state it leaves; every attempt reported as one of
\* these rejections leaves them as they were.
C9_RejectedPaymentChangesNothing ==
    [][/\ \A l \in LoanIdInputs, a \in PaymentAmountInputs :
              (PaymentStep(l, a) /\ l # <<>> /\ a # <<>> /\ Rejected(l[1], a[1])) =>
                  /\ UNCHANGED <<users, loans, payments, pc, user>>
                  /\ Rejected(l[1], a[1])'
                  /\ out' = IF ~(l[1] \in DOMAIN loans /\ Eligible(l[1]))
                                THEN <<"Invalid loan ID!">>
                            ELSE IF a[1] <= 0
                                THEN <<"Amount must be positive!">>
                            ELSE <<"Payment exceeds loan balance!">>
       /\ (last'.op = "make_payment" /\ \A i \in DOMAIN loans : ~Eligible(i)) =>
              /\ UNCHANGED <<users, loans, payments, pc, user>>
              /\ out'[Len(out')] = "You have no approved loans."
       /\ (/\ last'.op = "make_payment"
           /\ out' \in {<<"Invalid loan ID!">>, <<"Amount must be positive!">>,
                         <<"Payment exceeds loan balance!">>}) =>
              UNCHANGED <<users, loans, payments, pc, user>>]_vars

\* C9 witness: a payment larger than the balance of the caller's approved
\* loan has just been rejected.
C9_Witness ==
    /\ last.op = "make_payment"
    /\ out = <<"Payment exceeds loan balance!">>
    /\ Eligible(last.args[1][1])
    /\ last.args[2][1] > loans[last.args[1][1]].balance

\* C10: a decision entered for an existing loan (the prompt is reached while
\* some loan is pending) sets that loan's status to
\* approved or rejected, whatever its status was, and changes no balance, no
\* other loan, no payment record and no account.
C10_DecisionSetsStatus ==
    [][\A l \in DOMAIN loans, d \in {"a", "r"} :
           (/\ last'.op = "review_pending_loans"
            /\ last'.args = <<<<l>>, d>>
            /\ ~DbErrorIn(out')) =>
               /\ loans' = [loans EXCEPT ![l].status =
                                IF d = "a" THEN "approved" ELSE "rejected"]
               /\ payments' = payments
               /\ users' = users]_vars

\* C10 witness: a loan that was already approved has just been rejected.
C10_Witness ==
    /\ last.op = "review_pending_loans"
    /\ last.old = "approved"
    /\ out = <<"Loan rejected.">>
    /\ loans[last.args[1][1]].status = "rejected"

\* the step is apply_for_loan with amount a and term t typed at its prompts,
\* both numbers
ApplyStep(a, t) == last'.op = "apply_for_loan" /\ last'.args = <<a, t>>

\* C11: apply_for_loan with amount > 0 and term > 0 (and no store error)
\* appends exactly one loan, owned by the caller, pending, with balance equal
\* to its amount (the typed amount to the cent), and changes no other loan,
\* no account and no payment; with amount <= 0 or term <= 0 it changes
\* nothing at all.
C11_ApplyAddsOnePendingLoan ==
    [][\A a \in LoanAmountInputs, t \in TermInputs :
           ApplyStep(a, t) =>
               IF a[1] > 0 /\ t[1] > 0
               THEN /\ UNCHANGED <<users, payments, pc, user>>
                    /\ ~DbErrorIn(out') =>
                           /\ Len(loans') = Len(loans) + 1
                           /\ SubSeq(loans', 1, Len(loans)) = loans
                           /\ loans'[Len(loans')].user_id = user.id
                           /\ loans'[Len(loans')].status = "pending"
                           /\ loans'[Len(loans')].balance = loans'[Len(loans')].amount
                           /\ loans'[Len(loans')].amount - a[1] \in -5..5
                           /\ loans'[Len(loans')].term = t[1]
               ELSE UNCHANGED <<users, loans, payments, conn, pc, user>>]_vars

\* C11 witness: a second loan of 2.000 has just been added for the caller
\* next to a loan that was approved before.
C11_Witness ==
    /\ last.op = "apply_for_loan"
    /\ out = <<"Loan application submitted successfully!">>
    /\ Len(loans) = 2
    /\ loans[1].status = "approved"
    /\ loans[2].status = "pending"
    /\ loans[2].user_id = user.id
    /\ loans[2].balance = 100

\* C12: a loan's status becomes approved or rejected only in a step taken in
\* the session of an account whose stored is_admin is true, and no loan is
\* created approved or rejected; so nothing done in sessions of non-admin
\* accounts approves or rejects a loan.
C12_DecisionsAdminOnly ==
    [][\A i \in DOMAIN loans' :
           (/\ loans'[i].status \in {"approved", "rejected"}
            /\ i \in DOMAIN loans => loans[i].status # loans'[i].status) =>
               /\ pc = "user"
               /\ user.id \in DOMAIN users
               /\ users[user.id].username = user.username
               /\ users[user.id].is_admin
               /\ last'.op = "review_pending_loans"]_vars

\* C12 witness: in the session of admin, a loan of a non-admin account has
\* just been approved, after that account had applied for it.
C12_Witness ==
    /\ last.op = "review_pending_loans"
    /\ out = <<"Loan approved!">>
    /\ last.old = "pending"
    /\ pc = "user"
    /\ users[user.id].is_admin
    /\ loans[last.args[1][1]].status = "approved"
    /\ ~users[loans[last.args[1][1]].user_id].is_admin

\* no two accounts share a username
UniqueUsernames ==
    \A i, j \in DOMAIN users : users[i].username = users[j].username => i = j

\* the step adds exactly one account, named u and not admin, and leaves the
\* accounts that existed as they were
AddsAccount(u) ==
    /\ Len(users') = Len(users) + 1
    /\ SubSeq(users', 1, Len(users)) = users
    /\ users'[Len(users')].username = u
    /\ ~users'[Len(users')].is_admin

\* C13 as stated: register (without store error) with a username that exists
\* leaves the accounts as they were, register with a new username adds
\* exactly one account that is not admin, and no two accounts ever share a
\* username.
C13_RegisterNewCreatesOne ==
    /\ []UniqueUsernames
    /\ [][(last'.op = "register" /\ ~DbErrorIn(out')) =>
              IF UserIds(last'.args[1]) # {}
              THEN users' = users
              ELSE AddsAccount(last'.args[1])]_vars

\* C13 amended: register (without store error) with a username that exists
\* leaves the accounts as they were; with a new username and a password
\* typed the same at both prompts it adds exactly one account that is not
\* admin; with a new username and two different passwords it adds none; no
\* two accounts ever share a username.
C13_RegisterConfirmedCreatesOne ==
    /\ []UniqueUsernames
    /\ [][(last'.op = "register" /\ ~DbErrorIn(out')) =>
              IF UserIds(last'.args[1]) # {}
              THEN users' = users /\ out' = <<"Username already exists!">>
              ELSE IF last'.args[2] = last'.args[3]
              THEN AddsAccount(last'.args[1])
              ELSE users' = users /\ out' = <<"Passwords don't match!">>]_vars

\* C13 witness: alice is registered, and a registration under the name
\* alice with another password has just been refused.
C13_Witness ==
    /\ last.op = "register"
    /\ last.args = <<"alice">>
    /\ out = <<"Username already exists!">>
    /\ \E i \in DOMAIN users :
           /\ users[i].username = "alice"
           /\ users[i].password_hash = bcrypt_hashpw("pw", bcrypt_gensalt)
           /\ ~users[i].is_admin

\* C14: once initialization has run (the process got past Database()), there
\* is exactly one account named admin and it has is_admin true; no step, and
\* in particular no later initialization, adds another account named admin
\* or changes that account; a later initialization changes no account at all.
C14_BootstrapIdempotent ==
    /\ [](pc # "exited" =>
              /\ Cardinality(UserIds("admin")) = 1
              /\ \A i \in UserIds("admin") : users[i].is_admin)
    /\ [][UserIds("admin") # {} =>
              /\ UserIds("admin")' = UserIds("admin")
              /\ \A i \in UserIds("admin") : users'[i] = users[i]]_vars
    /\ [][(last'.op = "start" /\ UserIds("admin") # {}) => users' = users]_vars

\* C14 witness: initialization has just run again on a database in which an
\* earlier run registered alice, and there is still one admin account, with
\* the bootstrap password.
C14_Witness ==
    /\ last.op = "start"
    /\ pc = "main"
    /\ UserIds("alice") # {}
    /\ Cardinality(UserIds("admin")) = 1
    /\ users[1] = [username |-> "admin",
                   password_hash |-> bcrypt_hashpw("admin123", bcrypt_gensalt),
                   is_admin |-> TRUE]

\* account i is named u and its stored hash is the hash of password p under
\* the salt of that stored hash
Verifies(i, u, p) ==
    /\ users[i].username = u
    /\ users[i].password_hash = bcrypt_hashpw(p, users[i].password_hash[1])

\* C15: login (without store error) starts a session exactly when an account
\* has the typed username and the typed password verifies against its stored
\* hash; the session then carries that account's id, its username and its
\* is_admin as stored; otherwise no session is started and no account is
\* returned; login changes no account, loan or payment.
C15_LoginIffVerified ==
    [][last'.op = "login" =>
           /\ UNCHANGED <<users, loans, payments>>
           /\ ~DbErrorIn(out') =>
                  (pc' = "user" <=>
                       \E i \in DOMAIN users :
                           Verifies(i, last'.args[1], last'.args[2]))
           /\ pc' = "user" =>
                  /\ user'.id \in DOMAIN users
                  /\ Verifies(user'.id, last'.args[1], last'.args[2])
                  /\ user'.username = users[user'.id].username
                  /\ user'.is_admin = users[user'.id].is_admin
           /\ pc' # "user" => (pc' = "main" /\ user' = NoUser)]_vars

\* C15 witness: alice, registered with password pw while the admin password
\* is admin123, has just logged in with pw and the session is not admin.
C15_Witness ==
    /\ last.op = "login"
    /\ last.args = <<"alice", "pw">>
    /\ pc = "user"
    /\ user.id = 2
    /\ user.username = "alice"
    /\ ~user.is_admin

\* min(5 + t/12, 15) in hundredths of a percent, t/12 rounded to the hundredth
RateOfTerm(t) ==
    IF 500 + (100 * t + 6) \div 12 < 1500 THEN 500 + (100 * t + 6) \div 12 ELSE 1500

\* C16: the interest rate stored on every loan is min(500 + 100*t/12 rounded,
\* 1500) hundredths of a percent for its term t, lies between 5.00 and
\* 15.00, and is the same for any two loans of the same term, whatever their
\* amounts and owners.
C16_RateFromTermOnly ==
    /\ \A i \in DOMAIN loans :
           /\ loans[i].interest_rate = RateOfTerm(loans[i].term)
           /\ 500 <= loans[i].interest_rate
           /\ loans[i].interest_rate <= 1500
    /\ \A i, j \in DOMAIN loans :
           loans[i].term = loans[j].term =>
               loans[i].interest_rate = loans[j].interest_rate

\* C16 witness: two loans of term 2 with different owners and different
\* amounts, both at 5.17.
C16_Witness ==
    \E i, j \in DOMAIN loans :
        /\ loans[i].term = 2
        /\ loans[j].term = 2
        /\ loans[i].user_id # loans[j].user_id
        /\ loans[i].amount # loans[j].amount
        /\ loans[i].interest_rate = 517
        /\ loans[j].interest_rate = 517

\* C17: in every step, every payment record stays as it was, every account
\* stays under its id with its username, every loan stays under its id with
\* its owner, amount and term; so accounts, loans and payments are never
\* removed and their numbers never decrease.
C17_AppendOnly ==
    [][/\ Len(payments') >= Len(payments)
       /\ \A k \in DOMAIN payments : payments'[k] = payments[k]
       /\ Len(users') >= Len(users)
       /\ \A i \in DOMAIN users : users'[i].username = users[i].username
       /\ Len(loans') >= Len(loans)
       /\ \A i \in DOMAIN loans :
              /\ loans'[i].user_id = loans[i].user_id
              /\ loans'[i].amount = loans[i].amount
              /\ loans'[i].term = loans[i].term]_vars

\* C17 witness: with two accounts and two loans stored, the first loan has
\* just been rejected and both loans are still there.
C17_Witness ==
    /\ Len(users) = 2
    /\ Len(loans) = 2
    /\ last.op = "review_pending_loans"
    /\ last.args = <<<<1>>, "r">>
    /\ out = <<"Loan rejected.">>
    /\ loans[1].status = "rejected"
    /\ loans[2].status = "pending"

\* C18: make_payment with a loan id l and an amount a (both numbers) reports
\* the first check that fails, in the order: l is one of the caller's
\* approved loans ("Invalid loan ID!"), a > 0 ("Amount must be positive!"),
\* a <= balance ("Payment exceeds loan balance!"); whenever some check
\* fails, no loan and no payment changes; when none fails, none of the three
\* errors is reported.
C18_ValidationOrder ==
    [][\A l \in LoanIdInputs, a \in PaymentAmountInputs :
           (PaymentStep(l, a) /\ l # <<>> /\ a # <<>>) =>
               LET not_found == ~(l[1] \in DOMAIN loans /\ Eligible(l[1]))
                   not_pos == a[1] <= 0
                   exceeds == l[1] \in DOMAIN loans /\ a[1] > loans[l[1]].balance
               IN  /\ not_found => out' = <<"Invalid loan ID!">>
                   /\ (~not_found /\ not_pos) => out' = <<"Amount must be positive!">>
                   /\ (~not_found /\ ~not_pos /\ exceeds) =>
                          out' = <<"Payment exceeds loan balance!">>
                   /\ (not_found \/ not_pos \/ exceeds) =>
                          (loans' = loans /\ payments' = payments)
                   /\ (~not_found /\ ~not_pos /\ ~exceeds) =>
                          out' \notin {<<"Invalid loan ID!">>,
                                       <<"Amount must be positive!">>,
                                       <<"Payment exceeds loan balance!">>}]_vars

\* message m is among the messages printed
Printed(m, msgs) == \E k \in DOMAIN msgs : msgs[k] = m

\* C19: "Registration successful!" is printed only by a step that stored the
\* new account, and "Payment successful!" only by a step that stored both
\* the decreased balance and the payment record.
C19_SuccessOnlyIfCommitted ==
    [][/\ (last'.op = "register" /\ Printed("Registration successful!", out')) =>
              AddsAccount(last'.args[1])
       /\ (last'.op = "make_payment" /\ Printed("Payment successful!", out')) =>
              /\ Len(payments') = Len(payments) + 1
              /\ payments'[Len(payments')].loan_id = last'.args[1][1]
              /\ loans'[last'.args[1][1]].balance
                     = loans[last'.args[1][1]].balance - payments'[Len(payments')].amount]_vars
====
